---- MODULE Spec2Model ----
(***************************************************************************)
(* Virtual sales agent: the orchestrator graph (graph.py), the tools       *)
(* (tools.py) over the SQLite store that DatabaseManager.get_connection    *)
(* opens, and the catalogue load (db_manager.py).                          *)
(*                                                                         *)
(* Amounts are integers of hundredths.  create_order adds                  *)
(* Decimal(str(price)) * Decimal(str(quantity)) for every line; Decimal    *)
(* arithmetic is exact, so the integer sum is what total_amount holds.     *)
(* The one rounding of float(total_amount) in the result, to the double    *)
(* nearest to that decimal, is left out.                                   *)
(*                                                                         *)
(* The store is one SQLite file.  Every tool call opens a connection of    *)
(* its own (sqlite3.connect, default busy timeout).  A connection's        *)
(* uncommitted writes live in that connection until COMMIT, so db is the   *)
(* committed content, the one another connection reads, and tx[s] holds    *)
(* the writes of session s's open transaction.                             *)
(***************************************************************************)
EXTENDS Integers, Sequences, FiniteSets, TLC

\* ---------------------------------------------------------------- bounds
NumSessions == 2
MaxLines == 2
MaxCalls == 2
MaxQty == 1
MaxInvokes == 1
MaxGraphInvokes == 2
InvokesModulus == 3
MaxToolInvokes == 2
MaxRecords == 3
MaxHistoryInvokes == 2

Sessions == 1..NumSessions

\* ----------------------------------------------------------- the catalog
\* Rows of table products as insert_product stores them: names lowercased.
ProductIds == {1, 2}

ProductName == (1 :> "a") @@ (2 :> "b")

Price == (1 :> 199) @@ (2 :> 250)

LoadedQuantity == (1 :> 1) @@ (2 :> 2)

Category == (1 :> "fruit") @@ (2 :> "dairy")

Description == (1 :> "ab") @@ (2 :> "")

\* SQL LOWER() / str.lower() on the names that occur.
Lower(name) ==
  CASE name = "A" -> "a"
    [] name = "B" -> "b"
    [] name = "Fruit" -> "fruit"
    [] OTHER -> name

\* text LIKE '%' || q || '%' on the lowercased texts that occur.
Like(text, q) ==
  \/ q = ""
  \/ text = q
  \/ text = "ab" /\ q \in {"a", "b"}

\* SELECT ProductId, Price, Quantity FROM products
\*  WHERE LOWER(ProductName) = LOWER(?)   -- fetchone(); 0 stands for None
FindProduct(name) ==
  IF \E p \in ProductIds : Lower(ProductName[p]) = Lower(name)
    THEN CHOOSE p \in ProductIds : Lower(ProductName[p]) = Lower(name)
    ELSE 0

\* ------------------------------------------------------------- the graph
safe_tools ==
  {"get_available_categories", "search_products",
   "search_products_recommendations", "check_order_status"}

sensitive_tools == {"create_order"}

sensitive_tool_names == sensitive_tools

\* A graph compiled without interrupt_before.
InterruptBefore_None == {}

\* builder.compile(checkpointer=memory, interrupt_before=["sensitive_tools"])
InterruptBefore == {"sensitive_tools"}

\* The tools bound to each tool node.
NodeTools(node) ==
  IF node = "sensitive_tools" THEN sensitive_tools ELSE safe_tools

\* ------------------------------------------------- the decision-maker's output
RequestNames == {"A", "b", "zz"}

Quantities == (0 - 1)..MaxQty

Items == [ProductName : RequestNames, Quantity : Quantities]

ItemLists == UNION {[1..n -> Items] : n \in 0..MaxLines}

UnitOrder == {<<[ProductName |-> "A", Quantity |-> 1]>>}

ToolNames == safe_tools \cup sensitive_tools \cup {"unknown_tool"}

\* tool_calls of one AI message, by the names of the tools called: at most
\* MaxCalls calls.  The arguments of a call play no part before its tool
\* runs (route_tools reads names only); they are drawn when the tool starts.
\* At most one of the calls is create_order.
ToolCallLists ==
  {tc \in UNION {[1..n -> ToolNames] : n \in 0..MaxCalls} :
     Cardinality({i \in DOMAIN tc : tc[i] = "create_order"}) <= 1}

\* ----------------------------------------------------------------- state
VARIABLES
  db,        \* committed content of the store: products.Quantity, orders, orders_details
  writer,    \* the session whose connection holds SQLite's write lock, 0 if none
  tx,        \* per session: the open transaction of its create_order call
  customer,  \* per session: config["configurable"]["customer_id"], 0 if absent
  next,      \* per session: the node the graph runs next ("END": turn over)
  gate,      \* per session: the interrupt before sensitive_tools
  msg,       \* per session: tool_calls of the last AI message
  call,      \* per session: index of the tool call the tool node is at, 0 if none
  invokes,   \* per session: number of decision-maker invocations so far
  result,    \* per session: the answer to its last create_order call
  answer,    \* what the last call of a read-only tool came to
  load,      \* insert_products_from_json: the records, its place in them, the rows inserted
  history    \* per session: State.messages as checkpointed, and the instructions
             \* injected into the local state of the running Assistant call

vars ==
  <<db, writer, tx, customer, next, gate, msg, call, invokes, result, answer, load, history>>

NoTx ==
  [open |-> FALSE, order_id |-> 0, products |-> <<>>, lines |-> <<>>,
   total_amount |-> 0, i |-> 0]

NoResult == [type |-> "none", status |-> "", message |-> "", order_id |-> 0, total_amount |-> 0]

NoAnswer == [session |-> 0, tool |-> "none", args |-> <<>>, type |-> "none"]

NoHistory == [messages |-> <<>>, injected |-> 0]

NoLoad == [records |-> <<>>, i |-> 0, success |-> TRUE, rows |-> <<>>, returned |-> "none"]

\* ------------------------------------------------------ SQL in a transaction
RECURSIVE SumQuantity(_, _)
\* Sum of Quantity over the order lines of product p.
SumQuantity(lines, p) ==
  IF lines = <<>> THEN 0
  ELSE (IF Head(lines).ProductId = p THEN Head(lines).Quantity ELSE 0)
       + SumQuantity(Tail(lines), p)

\* A read that misses the transaction's own UPDATEs.
Available_CommittedOnly(s, p) == db.quantity[p]

\* products.Quantity as the connection of session s reads it: the committed
\* value less its own UPDATE products SET Quantity = Quantity - ?.
Available(s, p) == db.quantity[p] - SumQuantity(tx[s].lines, p)

\* INSERT INTO orders (CustomerId, OrderDate, Status) VALUES (?, ?, 'Pending')
NewOrder(id, cust) == [OrderId |-> id, CustomerId |-> cust, Status |-> "Pending"]

\* A total that adds the price once per line.
LineAmount_PriceOnly(price, quantity) == price

\* total_amount += Decimal(str(product["Price"])) * Decimal(str(quantity))
LineAmount(price, quantity) == price * quantity

\* A commit that loses the transaction's UPDATEs of products.
ApplyTx_KeepsStock(d, t, cust) ==
  [quantity |-> d.quantity,
   orders   |-> Append(d.orders, NewOrder(t.order_id, cust)),
   details  |-> d.details \o t.lines]

\* COMMIT: the transaction's writes become the committed content.
ApplyTx(d, t, cust) ==
  [quantity |-> [p \in ProductIds |-> d.quantity[p] - SumQuantity(t.lines, p)],
   orders   |-> Append(d.orders, NewOrder(t.order_id, cust)),
   details  |-> d.details \o t.lines]

\* A handler that keeps the transaction's writes.
Rollback_Commits(d, t, cust) == IF t.open THEN ApplyTx(d, t, cust) ELSE d

\* ROLLBACK: the transaction's writes are dropped.
Rollback(d, t, cust) == d

\* A store whose writers do not exclude one another.
LockFree_NoExclusion(s) == TRUE

\* The INSERT is the first statement after BEGIN (deferred): it needs the
\* write lock, which one connection holds at a time.
LockFree(s) == writer = 0

\* A tool that takes every run as configured.
Configured_Always(s) == TRUE

\* `if not customer_id` is false: the run's configuration has a customer id.
Configured(s) == customer[s] # 0

\* ---------------------------------------------------------------- routing
\* A router that takes every tool call for a safe one.
route_tools_AllSafe(tool_calls) ==
  IF Len(tool_calls) = 0 THEN "END" ELSE "safe_tools"

\* tools_condition, then the name of the first tool call.
route_tools(tool_calls) ==
  IF Len(tool_calls) = 0 THEN "END"
  ELSE IF tool_calls[1] \in sensitive_tool_names THEN "sensitive_tools"
  ELSE "safe_tools"

\* A graph that runs the pending node without waiting for the resume.
CanRun_IgnoresGate(s) == next[s] \in {"safe_tools", "sensitive_tools"}

\* A node named in interrupt_before runs only once the run is resumed.
CanRun(s) ==
  /\ next[s] \in {"safe_tools", "sensitive_tools"}
  /\ next[s] \in InterruptBefore => gate[s] = "Approved"

Current(s) == msg[s][call[s]]

\* The tool node runs the tool a call names if it is one of the node's tools.
Runs(s, name) ==
  /\ CanRun(s)
  /\ call[s] \in 1..Len(msg[s])
  /\ Current(s) = name
  /\ name \in NodeTools(next[s])

\* The tool node goes on to the next call; after the last one the edge to
\* "assistant" is taken.
FinishCall(s) ==
  IF call[s] = Len(msg[s])
    THEN /\ next' = [next EXCEPT ![s] = "assistant"]
         /\ gate' = [gate EXCEPT ![s] = "Idle"]
         /\ call' = [call EXCEPT ![s] = 0]
         /\ msg' = [msg EXCEPT ![s] = <<>>]
    ELSE /\ call' = [call EXCEPT ![s] = call[s] + 1]
         /\ UNCHANGED <<next, gate, msg>>

\* ------------------------------------------------------------------ Init
\* The store as loaded, no run of the graph started.
InitStore ==
  /\ db = [quantity |-> LoadedQuantity, orders |-> <<>>, details |-> <<>>]
  /\ writer = 0
  /\ tx = [s \in Sessions |-> NoTx]
  /\ customer \in {c \in [Sessions -> 0..NumSessions] : \A s \in Sessions : c[s] \in {0, s}}
  /\ next = [s \in Sessions |-> "END"]
  /\ gate = [s \in Sessions |-> "Idle"]
  /\ msg = [s \in Sessions |-> <<>>]
  /\ call = [s \in Sessions |-> 0]
  /\ invokes = [s \in Sessions |-> 0]
  /\ result = [s \in Sessions |-> NoResult]
  /\ answer = NoAnswer
  /\ history = [s \in Sessions |-> NoHistory]

Init == InitStore /\ load = NoLoad

\* --------------------------------------------------------------- the graph
\* graph.invoke / graph.stream with a user message: START -> assistant.
UserMessage(s) ==
  /\ next[s] = "END"
  /\ gate[s] = "Idle"
  /\ next' = [next EXCEPT ![s] = "assistant"]
  /\ UNCHANGED <<db, writer, tx, customer, gate, msg, call, invokes, result>>

\* `not result.tool_calls and (not result.content or ...)`: no tool call and
\* no text.
EmptyResponse(tc, content) == tc = <<>> /\ ~content

\* One pass of the loop of Assistant.__call__: the decision-maker is invoked;
\* an empty answer without tool calls is re-prompted, any other answer is
\* returned and route_tools picks the next node.  tc and content are the
\* decision-maker's answer: its tool calls and whether it has text.
AssistantPass(s, tc, content) ==
  /\ invokes' = [invokes EXCEPT ![s] = (invokes[s] + 1) % InvokesModulus]
  /\ IF EmptyResponse(tc, content)
       THEN UNCHANGED <<next, gate, msg, call>>
       ELSE /\ msg' = [msg EXCEPT ![s] = tc]
            /\ next' = [next EXCEPT ![s] = route_tools(tc)]
            /\ gate' = [gate EXCEPT ![s] =
                          IF route_tools(tc) \in InterruptBefore
                            THEN "AwaitingConfirmation" ELSE "Idle"]
            /\ call' = [call EXCEPT ![s] = IF tc = <<>> THEN 0 ELSE 1]
  /\ UNCHANGED <<db, writer, tx, customer, result>>

\* The node is at a pass of its loop, with an answer of the decision-maker:
\* tool calls of `answers`, with or without text.  The loop reads no count of
\* its passes: `limit` is the model's, and invokes is kept modulo
\* InvokesModulus, so that a limit of InvokesModulus is no limit.
Assistant(s, answers, limit) ==
  /\ next[s] = "assistant"
  /\ invokes[s] < limit
  /\ \E tc \in answers, content \in BOOLEAN : AssistantPass(s, tc, content)

\* The run is continued from the interrupt: the pending node may run.
Approve(s) ==
  /\ gate[s] = "AwaitingConfirmation"
  /\ gate' = [gate EXCEPT ![s] = "Approved"]
  /\ UNCHANGED <<db, writer, tx, customer, next, msg, call, invokes, result>>

\* The pending action is refused: a cancellation notice answers the call in
\* the session and the assistant runs next.
Deny(s) ==
  /\ gate[s] = "AwaitingConfirmation"
  /\ gate' = [gate EXCEPT ![s] = "Idle"]
  /\ next' = [next EXCEPT ![s] = "assistant"]
  /\ call' = [call EXCEPT ![s] = 0]
  /\ msg' = [msg EXCEPT ![s] = <<>>]
  /\ result' = [result EXCEPT ![s] =
       [type |-> "denied", status |-> "", message |-> "denied by user",
        order_id |-> 0, total_amount |-> 0]]
  /\ UNCHANGED <<db, writer, tx, customer, invokes>>

\* The conversation is abandoned while it awaits confirmation.
Abandon(s) ==
  /\ gate[s] = "AwaitingConfirmation"
  /\ gate' = [gate EXCEPT ![s] = "Abandoned"]
  /\ next' = [next EXCEPT ![s] = "END"]
  /\ call' = [call EXCEPT ![s] = 0]
  /\ msg' = [msg EXCEPT ![s] = <<>>]
  /\ UNCHANGED <<db, writer, tx, customer, invokes, result>>

\* A read-only tool of the node runs: it reads the committed store.
SafeTool(s) ==
  /\ \E name \in safe_tools : Runs(s, name)
  /\ FinishCall(s)
  /\ UNCHANGED <<db, writer, tx, customer, invokes, result>>

\* A call that names none of the node's tools is answered with an error
\* message; nothing runs.
InvalidTool(s) ==
  /\ CanRun(s)
  /\ call[s] \in 1..Len(msg[s])
  /\ Current(s) \notin NodeTools(next[s])
  /\ FinishCall(s)
  /\ UNCHANGED <<db, writer, tx, customer, invokes, result>>

\* ------------------------------------------------------------ create_order
\* Up to the INSERT INTO orders: without a customer id the ValueError is
\* returned; otherwise BEGIN TRANSACTION and the INSERT, which takes the write
\* lock.
CO_Begin(s, lists) ==
  /\ Runs(s, "create_order")
  /\ ~tx[s].open
  /\ IF ~Configured(s)
       THEN /\ result' = [result EXCEPT ![s] =
                 [type |-> "ValueError", status |-> "",
                  message |-> "No customer ID configured.",
                  order_id |-> 0, total_amount |-> 0]]
            /\ FinishCall(s)
            /\ UNCHANGED <<writer, tx>>
       ELSE /\ LockFree(s)
            /\ writer' = s
            /\ \E products \in lists :
                 tx' = [tx EXCEPT ![s] =
                   [open |-> TRUE, order_id |-> Len(db.orders) + 1,
                    products |-> products, lines |-> <<>>,
                    total_amount |-> 0, i |-> 1]]
            /\ UNCHANGED <<next, gate, call, msg, result>>
  /\ UNCHANGED <<db, customer, invokes>>

\* The INSERT finds the store locked until the connection's busy timeout
\* ends: sqlite3.OperationalError, caught by the handler (ROLLBACK, error).
CO_Busy(s) ==
  /\ Runs(s, "create_order")
  /\ ~tx[s].open
  /\ Configured(s)
  /\ ~LockFree(s)
  /\ result' = [result EXCEPT ![s] =
       [type |-> "dict", status |-> "error", message |-> "database is locked",
        order_id |-> 0, total_amount |-> 0]]
  /\ FinishCall(s)
  /\ UNCHANGED <<db, writer, tx, customer, invokes>>

\* What a failing line leads to: the handler's ROLLBACK and the error result.
Fail(s, message) ==
  /\ db' = Rollback(db, tx[s], customer[s])
  /\ writer' = IF writer = s THEN 0 ELSE writer
  /\ tx' = [tx EXCEPT ![s] = NoTx]
  /\ result' = [result EXCEPT ![s] =
       [type |-> "dict", status |-> "error", message |-> message,
        order_id |-> 0, total_amount |-> 0]]
  /\ FinishCall(s)

\* One pass of the loop over products.
CO_Line(s) ==
  /\ tx[s].open
  /\ tx[s].i <= Len(tx[s].products)
  /\ LET item == tx[s].products[tx[s].i]
         product == FindProduct(item.ProductName)
     IN IF product = 0
          THEN Fail(s, "Product not found")
        ELSE IF Available(s, product) < item.Quantity
          THEN Fail(s, "Insufficient stock")
        ELSE /\ tx' = [tx EXCEPT ![s] =
                  [@ EXCEPT !.lines = Append(@,
                              [OrderId |-> tx[s].order_id, ProductId |-> product,
                               Quantity |-> item.Quantity, UnitPrice |-> Price[product]]),
                            !.total_amount = @ + LineAmount(Price[product], item.Quantity),
                            !.i = @ + 1]]
             /\ UNCHANGED <<db, writer, next, gate, call, msg, result>>
  /\ UNCHANGED <<customer, invokes>>

\* After the last line: COMMIT and the success result.
CO_Commit(s) ==
  /\ tx[s].open
  /\ tx[s].i > Len(tx[s].products)
  /\ db' = ApplyTx(db, tx[s], customer[s])
  /\ writer' = IF writer = s THEN 0 ELSE writer
  /\ tx' = [tx EXCEPT ![s] = NoTx]
  /\ result' = [result EXCEPT ![s] =
       [type |-> "dict", status |-> "success",
        message |-> "Order created successfully",
        order_id |-> tx[s].order_id, total_amount |-> tx[s].total_amount]]
  /\ FinishCall(s)
  /\ UNCHANGED <<customer, invokes>>

\* One step of session s; the decision-maker answers with a message of
\* `answers`, at most `limit` times, and orders one of `lists`.
Step(s, answers, limit, lists) ==
  \/ UserMessage(s)
  \/ Assistant(s, answers, limit)
  \/ Approve(s)
  \/ Deny(s)
  \/ Abandon(s)
  \/ SafeTool(s)
  \/ InvalidTool(s)
  \/ CO_Begin(s, lists)
  \/ CO_Busy(s)
  \/ CO_Line(s)
  \/ CO_Commit(s)

Next ==
  /\ \E s \in Sessions : Step(s, ToolCallLists, MaxInvokes, ItemLists)
  /\ UNCHANGED <<answer, load, history>>

Spec == Init /\ [][Next]_vars

\* The graph over several turns, and the race for the last unit: every order
\* is for one unit of product "a", whose loaded stock is 1.
NextGraph ==
  /\ \E s \in Sessions : Step(s, ToolCallLists, MaxGraphInvokes, UnitOrder)
  /\ UNCHANGED <<answer, load, history>>

SpecGraph == Init /\ [][NextGraph]_vars

\* --------------------------------------------------------- read-only tools
\* An argument left out (None).
None == "None"

NoPrice == 0 - 1

\* WHERE Quantity > 0
InStock(d) == {p \in ProductIds : d.quantity[p] > 0}

\* One row of products as the tools return it.
ProductRow(d, p) ==
  [product_id |-> p, name |-> ProductName[p], category |-> Category[p],
   price |-> Price[p], stock |-> d.quantity[p]]

RECURSIVE SumPrice(_)
SumPrice(ps) ==
  IF ps = {} THEN 0
  ELSE LET p == CHOOSE q \in ps : TRUE IN Price[p] + SumPrice(ps \ {p})

\* round(float(AVG(Price)), 2), in hundredths; the double of a tie of this
\* catalogue rounds up.
Average(ps) == (2 * SumPrice(ps) + Cardinality(ps)) \div (2 * Cardinality(ps))

Min(S) == CHOOSE x \in S : \A y \in S : x <= y

Max(S) == CHOOSE x \in S : \A y \in S : x >= y

\* A tool's return value, and an exception leaving the tool.
Returned(value) == [type |-> "dict", value |-> value]

Raised(exception, message) ==
  [type |-> "raised", exception |-> exception, message |-> message]

\* get_available_categories: SELECT DISTINCT Category ... WHERE Quantity > 0
get_available_categories(d) ==
  Returned([categories |-> {Category[p] : p \in InStock(d)}])

\* The rows the two metadata queries aggregate: WHERE Quantity > 0.
Population(d, found) == InStock(d)

\* search_products: the filtered SELECT, the two metadata SELECTs (read here
\* from one committed state) and the result; float(None) of the empty
\* aggregate is a TypeError.
search_products(d, query, category, min_price, max_price) ==
  LET products ==
        {p \in InStock(d) :
           /\ query # None =>
                (Like(Lower(ProductName[p]), Lower(query))
                   \/ Like(Lower(Description[p]), Lower(query)))
           /\ category # None => Lower(Category[p]) = Lower(category)
           /\ min_price # NoPrice => Price[p] >= min_price
           /\ max_price # NoPrice => Price[p] <= max_price}
      all == Population(d, products)
      prices == {Price[p] : p \in all}
  IN IF all = {}
       THEN Raised("TypeError", "float() argument must be a string or a real number, not 'NoneType'")
       ELSE Returned(
              [status |-> "success",
               products |-> {ProductRow(d, p) : p \in products},
               metadata |->
                 [total_results |-> Cardinality(products),
                  categories |->
                    {[name |-> c,
                      product_count |-> Cardinality({p \in all : Category[p] = c})] :
                       c \in {Category[p] : p \in all}},
                  price_range |->
                    [min |-> Min(prices), max |-> Max(prices), average |-> Average(all)]]])

\* The lines of order id: orders_details od ON o.OrderId = od.OrderId.
LinesOf(d, id) == SelectSeq(d.details, LAMBDA l : l.OrderId = id)

RECURSIVE OrderTotal(_, _)
\* SUM(od.Quantity * od.UnitPrice) over the lines of order id.
OrderTotal(lines, id) ==
  IF lines = <<>> THEN 0
  ELSE (IF Head(lines).OrderId = id
          THEN Head(lines).Quantity * Head(lines).UnitPrice ELSE 0)
       + OrderTotal(Tail(lines), id)

\* A query that selects by order id alone.
OwnedBy_Anyone(o, customer_id) == TRUE

\* ... AND o.CustomerId = ?
OwnedBy(o, customer_id) == o.CustomerId = customer_id

\* The rows of orders that the (inner) JOIN with orders_details keeps for
\* the customer: the orders with at least one line.
JoinedOrders(d, customer_id) ==
  {i \in DOMAIN d.orders :
     /\ OwnedBy(d.orders[i], customer_id)
     /\ LinesOf(d, d.orders[i].OrderId) # <<>>}

\* One row of the query for all orders; OrderDate is the order's place in
\* the sequence of INSERTs.
OrderRow(d, i) ==
  [order_id |-> d.orders[i].OrderId, order_date |-> i,
   status |-> d.orders[i].Status,
   item_count |-> Len(LinesOf(d, d.orders[i].OrderId)),
   total_amount |-> OrderTotal(d.details, d.orders[i].OrderId)]

RECURSIVE OrdersDesc(_, _, _)
\* ORDER BY o.OrderDate DESC over the joined rows among orders 1..n.
OrdersDesc(d, rows, n) ==
  IF n = 0 THEN <<>>
  ELSE (IF n \in rows THEN <<OrderRow(d, n)>> ELSE <<>>) \o OrdersDesc(d, rows, n - 1)

\* check_order_status with a customer id configured.
check_order_status(d, customer_id, order_id) ==
  IF order_id # 0
    THEN LET rows == {i \in JoinedOrders(d, customer_id) : d.orders[i].OrderId = order_id}
         IN IF rows = {}
              THEN Returned([status |-> "error", message |-> "Order not found",
                             customer_id |-> customer_id, order_id |-> order_id])
              ELSE LET i == CHOOSE j \in rows : TRUE
                   IN Returned(
                        [status |-> "success", order_id |-> d.orders[i].OrderId,
                         order_date |-> i, order_status |-> d.orders[i].Status,
                         products |->
                           [k \in DOMAIN LinesOf(d, order_id) |->
                              <<ProductName[LinesOf(d, order_id)[k].ProductId],
                                LinesOf(d, order_id)[k].Quantity>>],
                         total_amount |-> OrderTotal(d.details, order_id),
                         customer_id |-> customer_id])
    ELSE Returned([status |-> "success", customer_id |-> customer_id,
                   orders |-> OrdersDesc(d, JoinedOrders(d, customer_id), Len(d.orders))])

\* search_products_recommendations with a customer id configured: the
\* in-stock products of the categories the customer bought from, or of any
\* category if there are none.  LIMIT 5 is above the size of the catalogue.
search_products_recommendations(d, customer_id) ==
  LET favorite_categories ==
        {Category[d.details[k].ProductId] :
           k \in {j \in DOMAIN d.details :
                    \E i \in DOMAIN d.orders :
                      /\ d.orders[i].OrderId = d.details[j].OrderId
                      /\ d.orders[i].CustomerId = customer_id}}
      recommendations ==
        IF favorite_categories = {} THEN InStock(d)
        ELSE {p \in InStock(d) : Category[p] \in favorite_categories}
  IN Returned([status |-> "success", customer_id |-> customer_id,
               recommendations |-> {ProductRow(d, p) : p \in recommendations}])

\* The arguments the decision-maker gives the read-only tools.
Queries == {None, "A"}

Categories == {None, "Fruit", "toys"}

MinPrices == {NoPrice, 200}

MaxPrices == {NoPrice, 199}

\* order_id of check_order_status; 0 stands for None.
OrderIds == 0..2

\* What a call of a read-only tool by session s came to.
Answer(s, tool, args, outcome) == [session |-> s, tool |-> tool, args |-> args] @@ outcome

\* The tool node has run the call of session s that names the tool.
Called(s, name) == Runs(s, name) /\ call'[s] # call[s]

\* The safe_tools node runs get_available_categories.
GetCategories(s) ==
  /\ Runs(s, "get_available_categories")
  /\ answer' = Answer(s, "get_available_categories", <<>>, get_available_categories(db))
  /\ FinishCall(s)
  /\ UNCHANGED <<db, writer, tx, customer, invokes, result, load, history>>

\* The safe_tools node runs search_products.
SearchProducts(s) ==
  /\ Runs(s, "search_products")
  /\ \E query \in Queries, category \in Categories,
        min_price \in MinPrices, max_price \in MaxPrices :
       answer' = Answer(s, "search_products", <<query, category, min_price, max_price>>,
                        search_products(db, query, category, min_price, max_price))
  /\ FinishCall(s)
  /\ UNCHANGED <<db, writer, tx, customer, invokes, result, load, history>>

\* The safe_tools node runs check_order_status: without a customer id the
\* ValueError is raised before the connection is opened.
CheckOrderStatus(s) ==
  /\ Runs(s, "check_order_status")
  /\ \E order_id \in OrderIds :
       answer' = Answer(s, "check_order_status", <<order_id>>,
                        IF ~Configured(s)
                          THEN Raised("ValueError", "No customer ID configured.")
                          ELSE check_order_status(db, customer[s], order_id))
  /\ FinishCall(s)
  /\ UNCHANGED <<db, writer, tx, customer, invokes, result, load, history>>

\* The safe_tools node runs search_products_recommendations.
Recommendations(s) ==
  /\ Runs(s, "search_products_recommendations")
  /\ answer' = Answer(s, "search_products_recommendations", <<>>,
                      IF ~Configured(s)
                        THEN Raised("ValueError", "No customer ID configured.")
                        ELSE search_products_recommendations(db, customer[s]))
  /\ FinishCall(s)
  /\ UNCHANGED <<db, writer, tx, customer, invokes, result, load, history>>

\* The tools over the stores that orders lead to: every AI message calls one
\* tool, and the orders are those of ToolOrders.
ToolAnswers == {<<name>> : name \in safe_tools \cup sensitive_tools}

ToolOrders ==
  {<<>>,
   <<[ProductName |-> "A", Quantity |-> 1]>>,
   <<[ProductName |-> "b", Quantity |-> 1], [ProductName |-> "b", Quantity |-> 1]>>}

StepTools(s) ==
  \/ UserMessage(s) /\ UNCHANGED <<answer, load, history>>
  \/ Assistant(s, ToolAnswers, MaxToolInvokes) /\ UNCHANGED <<answer, load, history>>
  \/ Approve(s) /\ UNCHANGED <<answer, load, history>>
  \/ GetCategories(s)
  \/ SearchProducts(s)
  \/ CheckOrderStatus(s)
  \/ Recommendations(s)
  \/ CO_Begin(s, ToolOrders) /\ UNCHANGED <<answer, load, history>>
  \/ CO_Busy(s) /\ UNCHANGED <<answer, load, history>>
  \/ CO_Line(s) /\ UNCHANGED <<answer, load, history>>
  \/ CO_Commit(s) /\ UNCHANGED <<answer, load, history>>

NextTools == \E s \in Sessions : StepTools(s)

SpecTools == Init /\ [][NextTools]_vars

\* ------------------------------------------------------ the session history
\* Messages by role, content and tool calls.
UserText == [role |-> "user", content |-> "text", tool_calls |-> <<>>]

Instruction ==
  [role |-> "user", content |-> "Respond with a real output.", tool_calls |-> <<>>]

ToolMessage == [role |-> "tool", content |-> "output", tool_calls |-> <<>>]

AIMessage(tc, content) ==
  [role |-> "ai", content |-> IF content THEN "text" ELSE "", tool_calls |-> tc]

\* A node that hands its local messages back with the response.
NodeOutput_WithLocal(injected, response) ==
  [k \in 1..injected |-> Instruction] \o <<response>>

\* return {"messages": result}: what add_messages appends to State.messages.
NodeOutput(injected, response) == <<response>>

\* What the decision-maker is invoked with in the next pass of session s:
\* state["messages"], the instructions injected so far at its end.
Prompt(s) ==
  history[s].messages \o [k \in 1..history[s].injected |-> Instruction]

\* The answers of the decision-maker in the runs that keep the history.
HistoryAnswers == {<<>>, <<"search_products">>, <<"unknown_tool">>}

\* graph.invoke with a user message, checkpointed in the session.
UserTurn(s) ==
  /\ UserMessage(s)
  /\ history' = [history EXCEPT ![s].messages = Append(@, UserText)]
  /\ UNCHANGED <<answer, load>>

\* One pass of Assistant.__call__ with the node's local state: an empty
\* response adds the instruction to the local messages; any other response is
\* returned, and the update is checkpointed.
AssistantNode(s) ==
  /\ next[s] = "assistant"
  /\ invokes[s] < MaxHistoryInvokes
  /\ \E tc \in HistoryAnswers, content \in BOOLEAN :
       /\ AssistantPass(s, tc, content)
       /\ history' = [history EXCEPT ![s] =
            IF EmptyResponse(tc, content)
              THEN [@ EXCEPT !.injected = @ + 1]
              ELSE [messages |-> @.messages \o NodeOutput(@.injected, AIMessage(tc, content)),
                    injected |-> 0]]
  /\ UNCHANGED <<answer, load>>

\* The tool node answers a call with a tool message.
ToolCall(s) ==
  /\ SafeTool(s) \/ InvalidTool(s)
  /\ history' = [history EXCEPT ![s].messages = Append(@, ToolMessage)]
  /\ UNCHANGED <<answer, load>>

NextHistory == \E s \in Sessions : UserTurn(s) \/ AssistantNode(s) \/ ToolCall(s)

SpecHistory == Init /\ [][NextHistory]_vars

\* ------------------------------------------------------- the catalogue load
\* The records of a products file by what insert_product does with them:
\* "ok" is inserted; "sqlite_error" makes the INSERT raise sqlite3.Error (a
\* value that cannot be bound, a constraint of the schema); "no_name" has no
\* product_name string, so product_name.lower() raises AttributeError.
RecordKinds == {"ok", "sqlite_error", "no_name"}

RecordLists == UNION {[1..n -> RecordKinds] : n \in 0..MaxRecords}

\* insert_product: True after INSERT and commit, False on sqlite3.Error; any
\* other exception leaves the method.
insert_product(record) ==
  CASE record = "ok" -> "True"
    [] record = "sqlite_error" -> "False"
    [] record = "no_name" -> "AttributeError"

\* The variables of the graph and the tools, which the load leaves alone.
graphVars ==
  <<db, writer, tx, customer, next, gate, msg, call, invokes, result, answer, history>>

\* insert_products_from_json up to the loop: no file path or a file that
\* pd.read_json rejects returns False; otherwise the rows are at hand.
LoadStart ==
  /\ load = NoLoad
  /\ \/ load' = [NoLoad EXCEPT !.returned = "False"]
     \/ \E records \in RecordLists :
          load' = [NoLoad EXCEPT !.records = records, !.i = 1]
  /\ UNCHANGED graphVars

\* One pass of the loop over df.iterrows().
LoadRow ==
  /\ load.returned = "none"
  /\ load.i \in 1..Len(load.records)
  /\ LET product_success == insert_product(load.records[load.i])
     IN IF product_success \in {"True", "False"}
          THEN load' = [load EXCEPT
                 !.rows = IF product_success = "True" THEN Append(@, load.i) ELSE @,
                 !.success = @ /\ product_success = "True",
                 !.i = @ + 1]
          ELSE load' = [load EXCEPT !.returned = product_success]
  /\ UNCHANGED graphVars

\* After the last row: return success.
LoadReturn ==
  /\ load.returned = "none"
  /\ load.i > Len(load.records)
  /\ load' = [load EXCEPT !.returned = IF load.success THEN "True" ELSE "False"]
  /\ UNCHANGED graphVars

\* insert_products_from_json, run once on the store.
NextLoad == LoadStart \/ LoadRow \/ LoadReturn

SpecLoad == Init /\ [][NextLoad]_vars

\* The assistant and the read-only side of the graph with no limit on the
\* invocations.  The node's loop goes on to its next pass and a tool node
\* goes on to its next call; nothing makes a user send a message.
LoopAnswers == {tc \in ToolCallLists : route_tools(tc) # "sensitive_tools"}

StepLoop(s) ==
  \/ UserMessage(s)
  \/ Assistant(s, LoopAnswers, InvokesModulus)
  \/ SafeTool(s)
  \/ InvalidTool(s)

NextLoop ==
  /\ \E s \in Sessions : StepLoop(s)
  /\ UNCHANGED <<answer, load, history>>

FairLoop ==
  \A s \in Sessions :
    /\ WF_vars(Assistant(s, LoopAnswers, InvokesModulus) /\ UNCHANGED <<answer, load, history>>)
    /\ WF_vars((SafeTool(s) \/ InvalidTool(s)) /\ UNCHANGED <<answer, load, history>>)

SpecLoop == Init /\ [][NextLoop]_vars /\ FairLoop

\* ------------------------------------------------------------------ claims
Details == {db.details[i] : i \in DOMAIN db.details}

\* Session s has its transaction open and the line it is at fails.
LineFails(s) ==
  /\ tx[s].open
  /\ tx[s].i <= Len(tx[s].products)
  /\ LET item == tx[s].products[tx[s].i]
     IN \/ FindProduct(item.ProductName) = 0
        \/ Available(s, FindProduct(item.ProductName)) < item.Quantity

\* A step in which session s commits.
Commits(s) == tx[s].open /\ ~tx'[s].open /\ result'[s].status = "success"

\* C1: for every product, the quantities of it in all committed order lines
\* sum to at most the stock it was loaded with, whatever the interleaving of
\* the sessions' create_order calls.
C1_NoOverselling ==
  \A p \in ProductIds : SumQuantity(db.details, p) <= LoadedQuantity[p]

\* Two orders of different sessions share out the whole stock of a product.
C1_Witness ==
  \E p \in ProductIds :
    /\ SumQuantity(db.details, p) = LoadedQuantity[p]
    /\ \E l1, l2 \in Details :
         /\ l1.ProductId = p /\ l2.ProductId = p
         /\ l1.Quantity > 0 /\ l2.Quantity > 0
         /\ l1.OrderId # l2.OrderId

\* C2: the step in which create_order fails on a line (product not found or
\* insufficient stock) leaves the committed store as it was, closes the
\* transaction and frees the write lock: nothing of the earlier lines stays.
C2_FailureRollsBack ==
  [][\A s \in Sessions :
       (LineFails(s) /\ ~tx'[s].open)
         => /\ db' = db
            /\ writer' # s
            /\ result'[s].status = "error"
            /\ result'[s].message \in {"Product not found", "Insufficient stock"}]_vars

\* A line fails after an earlier line of the same request was written.
C2_Witness ==
  \E s \in Sessions :
    /\ LineFails(s)
    /\ \E i \in DOMAIN tx[s].lines : tx[s].lines[i].Quantity > 0

\* C3: create_order acts (opens, changes or ends its transaction, returns a
\* result) only in a session whose run was interrupted before sensitive_tools
\* and then approved; approval is given only to a run awaiting confirmation.
C3_OrderOnlyAfterApproval ==
  [][\A s \in Sessions :
       /\ (tx'[s] # tx[s] \/ (result'[s] # result[s] /\ result'[s].type # "denied"))
            => (gate[s] = "Approved" /\ next[s] = "sensitive_tools")
       /\ (gate'[s] = "Approved" /\ gate[s] # "Approved")
            => (gate[s] = "AwaitingConfirmation" /\ next[s] = "sensitive_tools")
       /\ (gate'[s] = "AwaitingConfirmation" /\ gate[s] # "AwaitingConfirmation")
            => (next[s] = "assistant" /\ next'[s] = "sensitive_tools")]_vars

\* An approved create_order is writing its lines.
C3_Witness ==
  \E s \in Sessions :
    /\ tx[s].open
    /\ tx[s].lines # <<>>
    /\ gate[s] = "Approved"

\* C4: every product's stock is >= 0, in the committed store and as every
\* open transaction sees it.
C4_StockNonNegative ==
  \A p \in ProductIds :
    /\ db.quantity[p] >= 0
    /\ \A s \in Sessions : tx[s].open => Available(s, p) >= 0

\* A committed order names one product in two lines and takes its last unit.
C4_Witness ==
  \E p \in ProductIds :
    /\ db.quantity[p] = 0
    /\ \E i, j \in DOMAIN db.details :
         /\ i # j
         /\ db.details[i].OrderId = db.details[j].OrderId
         /\ db.details[i].ProductId = p /\ db.details[j].ProductId = p
         /\ db.details[i].Quantity > 0 /\ db.details[j].Quantity > 0

\* Both sessions have made one create_order call each, for one unit of
\* product "a" (loaded stock 1), and both calls have returned.
RaceOver ==
  /\ LoadedQuantity[1] = 1
  /\ \A s \in Sessions :
       /\ invokes[s] = 1
       /\ next[s] = "assistant"
       /\ result[s].type = "dict"

\* C5: after two sessions each ordered the last unit of a product, exactly one
\* call has returned success and the other an insufficient-stock error, and the
\* stock is 0.
C5_OneWinsOtherInsufficient ==
  RaceOver =>
    /\ Cardinality({s \in Sessions : result[s].status = "success"}) = 1
    /\ \A s \in Sessions :
         result[s].status # "success"
           => (result[s].status = "error" /\ result[s].message = "Insufficient stock")
    /\ db.quantity[1] = 0
    /\ Len(db.orders) = 1

\* C6: the total a successful create_order returned is the sum of
\* Quantity * UnitPrice over the persisted lines of its order, and every
\* persisted line carries the price of its product.
C6_TotalIsSumOfLines ==
  /\ \A s \in Sessions :
       result[s].status = "success"
         => /\ \E i \in DOMAIN db.orders : db.orders[i].OrderId = result[s].order_id
            /\ result[s].total_amount = OrderTotal(db.details, result[s].order_id)
  /\ \A l \in Details : l.UnitPrice = Price[l.ProductId]

\* A committed order of two lines of different products and its total.
C6_Witness ==
  \E s \in Sessions :
    /\ result[s].status = "success"
    /\ result[s].total_amount = Price[1] + Price[2]
    /\ \E l1, l2 \in Details :
         /\ l1.OrderId = result[s].order_id /\ l2.OrderId = result[s].order_id
         /\ l1.ProductId = 1 /\ l2.ProductId = 2

\* C7: every order in the committed store has status Completed.
C7_OrdersCompleted ==
  \A i \in DOMAIN db.orders : db.orders[i].Status = "Completed"

\* C8: while a create_order action of session s awaits confirmation no
\* transaction is open for it; the committed store changes only by another
\* session's commit; and the step that denies or abandons it changes nothing
\* of the store.
C8_DeniedChangesNothing ==
  [][\A s \in Sessions :
       gate[s] = "AwaitingConfirmation"
         => /\ ~tx[s].open /\ ~tx'[s].open
            /\ writer # s /\ writer' # s
            /\ result'[s] # result[s] => result'[s].type = "denied"
            /\ db' # db => \E t \in Sessions \ {s} : Commits(t)
            /\ gate'[s] \in {"Idle", "Abandoned"}
                 => (db' = db /\ tx' = tx /\ writer' = writer)]_vars

\* A session's action was denied at the gate while the store holds another
\* session's order.
C8_Witness ==
  \E s \in Sessions :
    /\ result[s].type = "denied"
    /\ db.orders # <<>>
    /\ \A i \in DOMAIN db.orders : db.orders[i].CustomerId # customer[s]

\* C9: from the routing to sensitive_tools until the resume signal, the
\* session invokes the decision-maker no more and writes nothing; it leaves
\* the wait only by a resume signal, a step that itself invokes and writes
\* nothing.
C9_SuspendedUntilResume ==
  [][\A s \in Sessions :
       gate[s] = "AwaitingConfirmation"
         => /\ invokes'[s] = invokes[s]
            /\ tx'[s] = tx[s]
            /\ msg'[s] # msg[s] => gate'[s] \in {"Idle", "Abandoned"}
            /\ gate'[s] \in {"AwaitingConfirmation", "Approved", "Idle", "Abandoned"}
            /\ gate'[s] # "AwaitingConfirmation" => UNCHANGED <<db, tx, writer, invokes>>
            /\ gate'[s] = "AwaitingConfirmation" => UNCHANGED <<next[s], call[s], msg[s]>>]_vars

\* A session waits at the gate, with invocations to spare, while another
\* session's transaction is open.
C9_Witness ==
  \E s \in Sessions :
    /\ gate[s] = "AwaitingConfirmation"
    /\ invokes[s] < MaxGraphInvokes
    /\ \E t \in Sessions \ {s} : tx[t].open

\* C10: every persisted order line has Quantity > 0.
C10_LinesPositive ==
  \A l \in Details : l.Quantity > 0

\* C11: an invocation of the Assistant node ends, also when the decision-maker
\* answers every time with an empty response without tool calls: a session
\* at the assistant node leaves it.
C11_AssistantReturns ==
  \A s \in Sessions : (next[s] = "assistant") ~> (next[s] # "assistant")

\* C12: when the decision-maker's answer proposes an action whose name is
\* none of the five tool names, the turn ends there: the session is routed to
\* END, not to a tool node, and no transaction is open for it.
C12_UnknownEndsTurn ==
  [][\A s \in Sessions :
       (/\ next[s] = "assistant"
        /\ \E i \in DOMAIN msg'[s] : msg'[s][i] \notin safe_tools \cup sensitive_tools)
         => (next'[s] = "END" /\ ~tx'[s].open)]_vars

\* Order id is in the store, with lines, and is another customer's than c.
OrderOfAnother(d, id, c) ==
  \E i \in DOMAIN d.orders :
    /\ d.orders[i].OrderId = id
    /\ d.orders[i].CustomerId # c
    /\ \E l \in {d.details[k] : k \in DOMAIN d.details} : l.OrderId = id

\* C13: check_order_status called by a customer with the id of an order of
\* another customer returns the error "Order not found" and, besides the
\* status and the message, only the caller's customer id and the id asked
\* for: no date, status, products or total of the order.
C13_OthersOrderNotFound ==
  [][\A s \in Sessions :
       (/\ Called(s, "check_order_status")
        /\ customer[s] # 0
        /\ OrderOfAnother(db, answer'.args[1], customer[s]))
         => /\ answer'.session = s
            /\ answer'.type = "dict"
            /\ DOMAIN answer'.value = {"status", "message", "customer_id", "order_id"}
            /\ answer'.value.status = "error"
            /\ answer'.value.message = "Order not found"
            /\ answer'.value.customer_id = customer[s]
            /\ answer'.value.order_id = answer'.args[1]]_vars

\* A customer was told "Order not found" for an order with lines that is in
\* the store for another customer.
C13_Witness ==
  /\ answer.tool = "check_order_status"
  /\ answer.type = "dict"
  /\ answer.value.status = "error"
  /\ customer[answer.session] # 0
  /\ OrderOfAnother(db, answer.args[1], customer[answer.session])

\* C14: in a session without a customer id, check_order_status and
\* search_products_recommendations raise, and create_order hands back, the
\* ValueError "No customer ID configured."; the call opens no transaction,
\* takes no lock and leaves the store as it was.
C14_NotConfigured ==
  [][\A s \in Sessions :
       customer[s] = 0
         => /\ (Called(s, "check_order_status") \/ Called(s, "search_products_recommendations"))
                 => /\ answer'.session = s
                    /\ answer'.type = "raised"
                    /\ answer'.exception = "ValueError"
                    /\ answer'.message = "No customer ID configured."
                    /\ UNCHANGED <<db, tx, writer>>
            /\ Runs(s, "create_order")
                 => /\ ~tx'[s].open
                    /\ writer' # s
                    /\ call'[s] # call[s]
                         => /\ result'[s].type = "ValueError"
                            /\ result'[s].message = "No customer ID configured."
                            /\ UNCHANGED <<db, tx, writer>>]_vars

\* Both kinds of call were made without a customer id: create_order came
\* back with the ValueError and a read-only tool raised it.
C14_Witness ==
  /\ answer.type = "raised"
  /\ answer.exception = "ValueError"
  /\ customer[answer.session] = 0
  /\ \E s \in Sessions : customer[s] = 0 /\ result[s].type = "ValueError"

\* C15: whatever a tool call came to is a result object with a status of
\* "success" or "error", and with a message when the status is "error": the
\* last answer of a read-only tool and every session's last answer of
\* create_order.
C15_ResultsTagged ==
  /\ answer.type # "none"
       => /\ answer.type = "dict"
          /\ "status" \in DOMAIN answer.value
          /\ answer.value.status \in {"success", "error"}
          /\ answer.value.status = "error" => "message" \in DOMAIN answer.value
  /\ \A s \in Sessions :
       result[s].type \notin {"none", "denied"}
         => /\ result[s].type = "dict"
            /\ result[s].status \in {"success", "error"}
            /\ result[s].status = "error" => result[s].message # ""

\* C16: every order in the store for a customer is visible to that customer:
\* check_order_status with its id returns success with that order, and
\* check_order_status without an id lists exactly the customer's orders, the
\* later created first.
C16_OrdersVisible ==
  [][\A s \in Sessions :
       (Called(s, "check_order_status") /\ customer[s] # 0)
         => LET id == answer'.args[1]
                mine == {db.orders[i].OrderId :
                           i \in {j \in DOMAIN db.orders : db.orders[j].CustomerId = customer[s]}}
            IN /\ answer'.session = s
               /\ answer'.type = "dict"
               /\ id \in mine
                    => /\ answer'.value.status = "success"
                       /\ answer'.value.order_id = id
               /\ id = 0
                    => /\ answer'.value.status = "success"
                       /\ {answer'.value.orders[k].order_id : k \in DOMAIN answer'.value.orders} = mine
                       /\ \A j, k \in DOMAIN answer'.value.orders :
                            j < k => answer'.value.orders[j].order_date
                                       > answer'.value.orders[k].order_date]_vars

\* Product p passes the filters of a search_products call; the query filter
\* is taken as the tool computes it.
Passes(p, args) ==
  /\ args[1] # None =>
       (Like(Lower(ProductName[p]), Lower(args[1]))
          \/ Like(Lower(Description[p]), Lower(args[1])))
  /\ args[2] # None => Category[p] = Lower(args[2])
  /\ args[3] # NoPrice => Price[p] >= args[3]
  /\ args[4] # NoPrice => Price[p] <= args[4]

\* C17: in every store state, search_products returns exactly the products
\* with stock > 0 that pass every filter given, each with its stock, and
\* metadata over all products with stock > 0 whatever the filters: the count
\* of each category, and the least, the greatest and the average price.
C17_SearchExact ==
  [][\A s \in Sessions :
       Called(s, "search_products")
         => LET stocked == {p \in ProductIds : db.quantity[p] > 0}
            IN /\ answer'.session = s
               /\ answer'.type = "dict"
               /\ {r.product_id : r \in answer'.value.products}
                    = {p \in stocked : Passes(p, answer'.args)}
               /\ \A r \in answer'.value.products :
                    r.stock = db.quantity[r.product_id] /\ r.price = Price[r.product_id]
               /\ {c.name : c \in answer'.value.metadata.categories}
                    = {Category[p] : p \in stocked}
               /\ \A c \in answer'.value.metadata.categories :
                    c.product_count = Cardinality({p \in stocked : Category[p] = c.name})
               /\ \A p \in stocked :
                    /\ answer'.value.metadata.price_range.min <= Price[p]
                    /\ answer'.value.metadata.price_range.max >= Price[p]
               /\ \E p, q \in stocked :
                    /\ answer'.value.metadata.price_range.min = Price[p]
                    /\ answer'.value.metadata.price_range.max = Price[q]
               /\ 2 * Cardinality(stocked) * answer'.value.metadata.price_range.average
                    \in (2 * SumPrice(stocked) - Cardinality(stocked))
                          .. (2 * SumPrice(stocked) + Cardinality(stocked))]_vars

\* C20: search_products ends in a result object with status "success" in
\* every store state, with no products in it when no product has stock > 0;
\* no exception leaves it.
C20_SearchNeverFaults ==
  [][\A s \in Sessions :
       Called(s, "search_products")
         => /\ answer'.type = "dict"
            /\ answer'.value.status = "success"
            /\ (\A p \in ProductIds : db.quantity[p] = 0)
                 => answer'.value.products = {}]_vars

\* C18: the node a returned AI message is routed to depends on the message
\* alone, whatever the session did before and whatever the store holds: END
\* without tool calls, sensitive_tools when and only when the first call is
\* create_order, safe_tools when it is one of the four query tools.
C18_RoutingFixed ==
  [][\A s \in Sessions :
       (next[s] = "assistant" /\ next'[s] # "assistant")
         => /\ msg'[s] = <<>> <=> next'[s] = "END"
            /\ msg'[s] # <<>>
                 => /\ msg'[s][1] = "create_order" <=> next'[s] = "sensitive_tools"
                    /\ msg'[s][1] \in {"get_available_categories", "search_products",
                                       "search_products_recommendations",
                                       "check_order_status"}
                         => next'[s] = "safe_tools"]_vars

\* An order is in the store, and a session, in its second invocation, is
\* routed to sensitive_tools again for a create_order call.
C18_Witness ==
  \E s \in Sessions :
    /\ db.orders # <<>>
    /\ invokes[s] = 2
    /\ next[s] = "sensitive_tools"
    /\ msg[s][1] = "create_order"
    /\ result[s].status = "success"

\* C19: when insert_products_from_json is through with the records of a
\* file, every record that insert_product inserts on its own is in the
\* table, whatever records came before it, and the call has returned True if
\* every record was inserted and False if not.
C19_RecordsIndependent ==
  (load.i >= 1 /\ load.returned # "none")
    => /\ {load.rows[k] : k \in DOMAIN load.rows}
            = {i \in DOMAIN load.records : load.records[i] = "ok"}
       /\ load.returned \in {"True", "False"}
       /\ load.returned = "True" <=> \A i \in DOMAIN load.records : load.records[i] = "ok"

\* C21: when the AI message the assistant returns has a create_order call at
\* any place among its tool calls, the session goes to sensitive_tools and
\* awaits confirmation, and until it is approved none of the message's calls
\* is run.
C21_OrderAnywhereGated ==
  [][\A s \in Sessions :
       /\ (/\ next[s] = "assistant"
           /\ \E i \in DOMAIN msg'[s] : msg'[s][i] = "create_order")
            => (next'[s] = "sensitive_tools" /\ gate'[s] = "AwaitingConfirmation")
       /\ (/\ \E i \in DOMAIN msg[s] : msg[s][i] = "create_order"
           /\ next[s] # "assistant"
           /\ call'[s] # call[s])
            => \/ gate[s] = "Approved"
               \/ gate[s] = "AwaitingConfirmation" /\ tx'[s] = tx[s] /\ call'[s] = 0]_vars

\* The committed store balances: what each product's stock has gone down by
\* since the load is the sum of the quantities of its order lines, and every
\* order line is a line of an order in the store.
Conserved ==
  /\ \A p \in ProductIds :
       LoadedQuantity[p] - db.quantity[p] = SumQuantity(db.details, p)
  /\ \A l \in Details :
       \E i \in DOMAIN db.orders : db.orders[i].OrderId = l.OrderId

\* C22: the committed store balances at the start and after every step, and
\* a step in which a read-only tool runs leaves products, orders and order
\* lines, committed and uncommitted, as they were.
C22_StockConserved ==
  /\ Conserved
  /\ [][/\ Conserved'
        /\ \A s \in Sessions :
             (\E name \in safe_tools : Called(s, name))
               => UNCHANGED <<db, tx, writer>>]_vars

\* Stock was taken by a committed order of two lines, and a read-only tool
\* is about to run on that store.
C22_Witness ==
  /\ \E p \in ProductIds : db.quantity[p] < LoadedQuantity[p]
  /\ \E i, j \in DOMAIN db.details :
       i # j /\ db.details[i].OrderId = db.details[j].OrderId
  /\ \E s \in Sessions, name \in safe_tools : Runs(s, name)

\* C23: a pass of the Assistant node that re-prompts leaves the session
\* history as it is; the pass that returns adds one message to it, the
\* response, which has a tool call or text, and ends the life of the
\* injected instructions; none of them is ever in the session history.
C23_OneMessagePerInvocation ==
  [][\A s \in Sessions :
       /\ (next[s] = "assistant" /\ invokes'[s] # invokes[s])
            => IF next'[s] = "assistant"
                 THEN /\ history'[s].messages = history[s].messages
                      /\ Prompt(s)' = Append(Prompt(s), Instruction)
                 ELSE /\ Len(history'[s].messages) = Len(history[s].messages) + 1
                      /\ SubSeq(history'[s].messages, 1, Len(history[s].messages))
                           = history[s].messages
                      /\ LET m == history'[s].messages[Len(history'[s].messages)]
                         IN /\ m.role = "ai"
                            /\ m.tool_calls = msg'[s]
                            /\ m.tool_calls # <<>> \/ m.content # ""
                      /\ Prompt(s)' = history'[s].messages
       /\ \A k \in DOMAIN history'[s].messages : history'[s].messages[k] # Instruction
       /\ next'[s] # "assistant" => history'[s].injected = 0]_vars

\* An invocation of the node has returned its response after a re-prompt:
\* the passes are used up, and the history is the user's message and the
\* response.
C23_Witness ==
  \E s \in Sessions :
    /\ invokes[s] = MaxHistoryInvokes
    /\ Len(history[s].messages) = 2
    /\ history[s].messages[2].role = "ai"
    /\ history[s].injected = 0

====
